---- MODULE Spec2Model ----
(***************************************************************************)
(* Policy compliance checker (crawler.js): the per-merchant audit          *)
(* checkWebsite, the helpers it uses and the batch loop that calls it.     *)
(*                                                                         *)
(* Representation choices:                                                 *)
(*   - JavaScript strings are TLA+ strings; null / undefined is NULL.      *)
(*   - legalNamePresent is the tri-state true | false | "NOT RELEVANT";    *)
(*     the booleans are written "true" and "false" so that the three       *)
(*     values can be compared with each other.                             *)
(*   - a policy outcome without a pageText property has pageText = NULL.   *)
(*   - the browser is the variable cur (the document that is loaded) and   *)
(*     the fixed set of sites below; whether a navigation succeeds, which  *)
(*     version of a page is served and whether a page call rejects are     *)
(*     chosen by the environment at every step.                            *)
(***************************************************************************)
EXTENDS Integers, Sequences, FiniteSets, TLC

NULL == "<null>"

\* ---------------------------------------------------------------- CONFIG

PolicyKeys == <<"privacy", "terms", "shipping", "returns", "refund", "cancellation">>

\* variant: the content keywords of shipping written as phrases, as those of
\* privacy and terms are
POLICY_CONFIG_shippingPhrases ==
  ( "privacy" :> [ anchorHints  |-> <<"privacy">>,
                   pageKeywords |-> <<"privacy policy", "privacy notice", "privacy practices">>,
                   relevantFor  |-> {"goods", "services"},
                   displayName  |-> "Privacy Policy" ] ) @@
  ( "terms" :> [ anchorHints  |-> <<"terms">>,
                 pageKeywords |-> <<"terms and conditions", "terms & conditions",
                                    "terms of use", "terms of service">>,
                 relevantFor  |-> {"goods", "services"},
                 displayName  |-> "Terms and Conditions" ] ) @@
  ( "shipping" :> [ anchorHints  |-> <<"shipping", "delivery">>,
                    pageKeywords |-> <<"shipping policy", "delivery policy", "shipping">>,
                    relevantFor  |-> {"goods"},
                    displayName  |-> "Shipping Policy" ] ) @@
  ( "returns" :> [ anchorHints  |-> <<"return", "returns">>,
                   pageKeywords |-> <<"return policy", "returns policy", "return">>,
                   relevantFor  |-> {"goods"},
                   displayName  |-> "Returns Policy" ] ) @@
  ( "refund" :> [ anchorHints  |-> <<"refund">>,
                  pageKeywords |-> <<"refund policy", "refund">>,
                  relevantFor  |-> {"goods", "services"},
                  displayName  |-> "Refund Policy" ] ) @@
  ( "cancellation" :> [ anchorHints  |-> <<"cancellation", "cancel">>,
                        pageKeywords |-> <<"cancellation policy", "cancellation",
                                           "cancelling", "cancel">>,
                        relevantFor  |-> {"goods", "services"},
                        displayName  |-> "Cancellation Policy" ] )

POLICY_CONFIG ==
  ( "privacy" :> [ anchorHints  |-> <<"privacy">>,
                   pageKeywords |-> <<"privacy policy", "privacy notice", "privacy practices">>,
                   relevantFor  |-> {"goods", "services"},
                   displayName  |-> "Privacy Policy" ] ) @@
  ( "terms" :> [ anchorHints  |-> <<"terms">>,
                 pageKeywords |-> <<"terms and conditions", "terms & conditions",
                                    "terms of use", "terms of service">>,
                 relevantFor  |-> {"goods", "services"},
                 displayName  |-> "Terms and Conditions" ] ) @@
  ( "shipping" :> [ anchorHints  |-> <<"shipping", "delivery">>,
                    pageKeywords |-> <<"shipping", "delivery">>,
                    relevantFor  |-> {"goods"},
                    displayName  |-> "Shipping Policy" ] ) @@
  ( "returns" :> [ anchorHints  |-> <<"return", "returns">>,
                   pageKeywords |-> <<"return policy", "returns policy", "return">>,
                   relevantFor  |-> {"goods"},
                   displayName  |-> "Returns Policy" ] ) @@
  ( "refund" :> [ anchorHints  |-> <<"refund">>,
                  pageKeywords |-> <<"refund policy", "refund">>,
                  relevantFor  |-> {"goods", "services"},
                  displayName  |-> "Refund Policy" ] ) @@
  ( "cancellation" :> [ anchorHints  |-> <<"cancellation", "cancel">>,
                        pageKeywords |-> <<"cancellation policy", "cancellation",
                                           "cancelling", "cancel">>,
                        relevantFor  |-> {"goods", "services"},
                        displayName  |-> "Cancellation Policy" ] )

POLICY_ORDER ==
  ( "goods" :> <<"privacy", "terms", "shipping", "returns", "refund", "cancellation">> ) @@
  ( "services" :> <<"privacy", "terms", "refund", "cancellation">> )

\* variant: the terms page counted among the resolvable group of goods
RESOLVABLE_GROUP_withTerms ==
  ( "goods" :> <<"terms", "shipping", "returns", "refund", "cancellation">> ) @@
  ( "services" :> <<"refund", "cancellation">> )

RESOLVABLE_GROUP ==
  ( "goods" :> <<"shipping", "returns", "refund", "cancellation">> ) @@
  ( "services" :> <<"refund", "cancellation">> )

\* --------------------------------------------------------- STRING HELPERS

CharAt(s, i) == SubSeq(s, i, i)

\* String.prototype.includes
includes(text, k) ==
  \E i \in 1..(Len(text) - Len(k) + 1) : SubSeq(text, i, i + Len(k) - 1) = k

\* String.prototype.indexOf / lastIndexOf, 0-based, -1 when absent
indexOf(text, k) ==
  LET hits == { i \in 1..(Len(text) - Len(k) + 1) : SubSeq(text, i, i + Len(k) - 1) = k }
  IN  IF hits = {} THEN -1 ELSE (CHOOSE i \in hits : \A j \in hits : i <= j) - 1

lastIndexOf(text, k) ==
  LET hits == { i \in 1..(Len(text) - Len(k) + 1) : SubSeq(text, i, i + Len(k) - 1) = k }
  IN  IF hits = {} THEN -1 ELSE (CHOOSE i \in hits : \A j \in hits : i >= j) - 1

UPPER == "ABCDEFGHIJKLMNOPQRSTUVWXYZ"
LOWER == "abcdefghijklmnopqrstuvwxyz"
DIGITS == "0123456789"

UpperChars ==
  { "A", "B", "C", "D", "E", "F", "G", "H", "I", "J", "K", "L", "M",
    "N", "O", "P", "Q", "R", "S", "T", "U", "V", "W", "X", "Y", "Z" }

WordChars ==
  { "A", "B", "C", "D", "E", "F", "G", "H", "I", "J", "K", "L", "M",
    "N", "O", "P", "Q", "R", "S", "T", "U", "V", "W", "X", "Y", "Z",
    "a", "b", "c", "d", "e", "f", "g", "h", "i", "j", "k", "l", "m",
    "n", "o", "p", "q", "r", "s", "t", "u", "v", "w", "x", "y", "z",
    "0", "1", "2", "3", "4", "5", "6", "7", "8", "9", "_" }

\* the index of an upper-case letter in UPPER
RECURSIVE upperIndex(_, _)
upperIndex(c, k) == IF CharAt(UPPER, k) = c THEN k ELSE upperIndex(c, k + 1)

toLowerChar(c) == IF c \in UpperChars THEN CharAt(LOWER, upperIndex(c, 1)) ELSE c

\* the characters lo..hi of s in lower case
RECURSIVE toLowerRange(_, _, _)
toLowerRange(s, lo, hi) ==
  IF lo > hi THEN ""
  ELSE IF lo = hi THEN toLowerChar(CharAt(s, lo))
  ELSE toLowerRange(s, lo, (lo + hi) \div 2) \o toLowerRange(s, (lo + hi) \div 2 + 1, hi)

\* String.prototype.toLowerCase
toLowerCase(s) == toLowerRange(s, 1, Len(s))

\* the regular-expression class \s, on the characters the texts use
IsSpace(c) == c \in {" ", "\t", "\n"}

\* the regular-expression class \w
IsWordChar(c) == c \in WordChars

\* replace(/\s+/g, " ")
RECURSIVE collapseSpaces(_, _)
collapseSpaces(s, i) ==
  IF i > Len(s) THEN ""
  ELSE IF IsSpace(CharAt(s, i))
    THEN (IF i > 1 /\ IsSpace(CharAt(s, i - 1)) THEN "" ELSE " ") \o collapseSpaces(s, i + 1)
    ELSE CharAt(s, i) \o collapseSpaces(s, i + 1)

\* String.prototype.trim
trim(s) ==
  LET solid == { i \in 1..Len(s) : ~IsSpace(CharAt(s, i)) }
  IN  IF solid = {} THEN ""
      ELSE SubSeq(s, CHOOSE i \in solid : \A j \in solid : i <= j,
                     CHOOSE i \in solid : \A j \in solid : i >= j)

\* an absent argument (null, undefined) is the empty string: (s || "")
normalize(s) == trim(collapseSpaces(toLowerCase(s), 1))

\* keywords.some(k => text.includes(k)), keywords a sequence
containsAny(text, keywords) ==
  \E n \in 1..Len(keywords) : includes(text, keywords[n])

\* the assertion \b between the characters p and p+1 of text (0 <= p <= Len)
IsBoundary(text, p) ==
  LET before == p >= 1 /\ IsWordChar(CharAt(text, p))
      after  == p < Len(text) /\ IsWordChar(CharAt(text, p + 1))
  IN  before # after

\* ------------------------------------------------------ LEGAL NAME MATCHER

SUFFIXES == <<"llc", "inc", "ltd", "corp", "corporation", "co", "company", "limited">>

\* the alternatives of /\b(?:llc|inc|...)\b/ that match s at index i
SuffixesAt(s, i) ==
  { n \in 1..Len(SUFFIXES) :
      /\ i + Len(SUFFIXES[n]) - 1 <= Len(s)
      /\ SubSeq(s, i, i + Len(SUFFIXES[n]) - 1) = SUFFIXES[n]
      /\ IsBoundary(s, i - 1)
      /\ IsBoundary(s, i + Len(SUFFIXES[n]) - 1) }

\* replace(/\b(?:llc|inc|ltd|corp|corporation|co|company|limited)\b/g, "")
RECURSIVE stripSuffixes(_, _)
stripSuffixes(s, i) ==
  IF i > Len(s) THEN ""
  ELSE IF SuffixesAt(s, i) # {}
    THEN LET n == CHOOSE n \in SuffixesAt(s, i) : \A m \in SuffixesAt(s, i) : n <= m
         IN  stripSuffixes(s, i + Len(SUFFIXES[n]))
    ELSE CharAt(s, i) \o stripSuffixes(s, i + 1)

\* first index >= i of s that is not white space (Len(s) + 1 when none)
RECURSIVE skipSpaces(_, _)
skipSpaces(s, i) ==
  IF i <= Len(s) /\ IsSpace(CharAt(s, i)) THEN skipSpaces(s, i + 1) ELSE i

\* first index >= i of s that is white space (Len(s) + 1 when none)
RECURSIVE skipSolid(_, _)
skipSolid(s, i) ==
  IF i <= Len(s) /\ ~IsSpace(CharAt(s, i)) THEN skipSolid(s, i + 1) ELSE i

\* the pattern pat.replace(/\s+/g, "\\s+") with flag i, matched against text
\* from index i on: the index after the match, 0 when there is none.  The
\* names used here have no character that is special in a regular expression.
RECURSIVE matchFrom(_, _, _, _)
matchFrom(text, i, pat, j) ==
  IF j > Len(pat) THEN i
  ELSE IF IsSpace(CharAt(pat, j))
    THEN IF i <= Len(text) /\ IsSpace(CharAt(text, i))
           THEN matchFrom(text, skipSpaces(text, i), pat, skipSpaces(pat, j))
           ELSE 0
    ELSE IF i <= Len(text) /\ toLowerChar(CharAt(text, i)) = toLowerChar(CharAt(pat, j))
           THEN matchFrom(text, i + 1, pat, j + 1)
           ELSE 0

\* new RegExp(`\\b${pat.replace(/\s+/g, '\\s+')}\\b`, 'i').test(text)
wordTest(text, pat) ==
  \E i \in 1..Len(text) :
     /\ IsBoundary(text, i - 1)
     /\ LET e == matchFrom(text, i, pat, 1)
        IN  e > 0 /\ IsBoundary(text, e - 1)

\* s.split(/\s+/) of a trimmed, non-empty s
RECURSIVE splitSpaces(_, _)
splitSpaces(s, i) ==
  IF i > Len(s) THEN << >>
  ELSE LET e == skipSolid(s, i)
       IN  <<SubSeq(s, i, e - 1)>> \o splitSpaces(s, skipSpaces(s, e))

MaxDistance == 200

\* variant: a distance of exactly 200 characters accepted
containsLegalName_inclusive(pageText, legalName) ==
  IF legalName = NULL \/ legalName = "" \/ trim(legalName) = "" THEN FALSE
  ELSE
    LET normalizedLegalName == normalize(legalName)
        cleanLegalName == trim(stripSuffixes(normalizedLegalName, 1))
    IN
    IF cleanLegalName = "" THEN FALSE
    ELSE IF wordTest(pageText, cleanLegalName) THEN TRUE
    ELSE
      LET Significant(part) == Len(part) > 2
          nameParts == SelectSeq(splitSpaces(cleanLegalName, 1), Significant)
          Found(part) == wordTest(pageText, part)
          foundParts == SelectSeq(nameParts, Found)
      IN
      IF Len(nameParts) >= 2
        THEN IF Len(foundParts) >= 2
               THEN LET firstPartIndex == indexOf(toLowerCase(pageText), foundParts[1])
                        lastPartIndex  == lastIndexOf(toLowerCase(pageText), foundParts[Len(foundParts)])
                        d == lastPartIndex - firstPartIndex
                        distance == IF d < 0 THEN -d ELSE d
                    IN  firstPartIndex # -1 /\ lastPartIndex # -1 /\ distance <= MaxDistance
               ELSE FALSE
      ELSE IF Len(nameParts) = 1
        THEN wordTest(pageText, nameParts[1])
      ELSE FALSE

containsLegalName(pageText, legalName) ==
  IF legalName = NULL \/ legalName = "" \/ trim(legalName) = "" THEN FALSE
  ELSE
    LET normalizedLegalName == normalize(legalName)
        cleanLegalName == trim(stripSuffixes(normalizedLegalName, 1))
    IN
    IF cleanLegalName = "" THEN FALSE
    ELSE IF wordTest(pageText, cleanLegalName) THEN TRUE
    ELSE
      LET Significant(part) == Len(part) > 2
          nameParts == SelectSeq(splitSpaces(cleanLegalName, 1), Significant)
          Found(part) == wordTest(pageText, part)
          foundParts == SelectSeq(nameParts, Found)
      IN
      IF Len(nameParts) >= 2
        THEN IF Len(foundParts) >= 2
               THEN LET firstPartIndex == indexOf(toLowerCase(pageText), foundParts[1])
                        lastPartIndex  == lastIndexOf(toLowerCase(pageText), foundParts[Len(foundParts)])
                        d == lastPartIndex - firstPartIndex
                        distance == IF d < 0 THEN -d ELSE d
                    IN  firstPartIndex # -1 /\ lastPartIndex # -1 /\ distance < MaxDistance
               ELSE FALSE
      ELSE IF Len(nameParts) = 1
        THEN wordTest(pageText, nameParts[1])
      ELSE FALSE

\* ---------------------------------------------------------- CLASSIFIERS

\* variant: the normalized input compared with "goods" as a whole
determineMerchantType_exact(input) ==
  IF input = NULL \/ input = "" THEN "goods"
  ELSE IF normalize(input) = "goods" THEN "goods"
  ELSE "services"

determineMerchantType(input) ==
  IF input = NULL \/ input = "" THEN "goods"
  ELSE IF includes(normalize(input), "good") THEN "goods"
  ELSE "services"

isProprietorship(entityType) ==
  IF entityType = NULL \/ entityType = "" THEN TRUE
  ELSE includes(normalize(entityType), "proprietor")

\* variant: every policy kind taken as relevant
isPolicyRelevant_always(policy, merchantType) == TRUE

isPolicyRelevant(policy, merchantType) ==
  merchantType \in POLICY_CONFIG[policy].relevantFor

\* ----------------------------------------------------------- ENVIRONMENT
\* The web the browser can reach: three merchant sites.  RawLinks is what
\* page.$$eval("a", ...) extracts from a homepage, Bodies the texts that
\* page.textContent("body") can return for a URL (a page with two texts is
\* one whose content differs between two loads).

SiteA == "https://a.example"
SiteB == "https://b.example"
SiteC == "https://c.example"
ErrorPage == "chrome-error://chromewebdata/"
BlankPage == "about:blank"
\* the document an earlier audit left loaded: the next audit navigates before
\* it reads the page, and returns at once when that navigation fails
StalePage == "<document of an earlier audit>"

Websites == {SiteA, SiteB, SiteC}

RawLinks(website) ==
  CASE website = SiteA ->
         << [text |-> "Terms &  Conditions", href |-> "https://a.example/terms"],
            [text |-> "Privacy", href |-> "https://a.example/privacy"] >>
    [] website = SiteB ->
         << [text |-> "Contact Us", href |-> "https://b.example/contact"],
            [text |-> "", href |-> "https://b.example/logo"],
            [text |-> "About", href |-> ""],
            [text |-> "Delivery Status", href |-> "https://b.example/blog"],
            [text |-> "Shipping for Business", href |-> "https://b.example/ship"],
            [text |-> "Shipping Rates", href |-> "https://b.example/rates"] >>
    [] website = SiteC ->
         << [text |-> "Privacy Policy", href |-> "https://c.example/privacy"],
            [text |-> "Terms of Use", href |-> "https://c.example/terms"],
            [text |-> "Refund Policy", href |-> "https://c.example/refund"] >>
    [] OTHER -> << >>

Bodies(url) ==
  CASE url = "https://a.example/terms" ->
         { "Terms of Use of Acme Traders LLC. Refund, cancellation" }
    [] url = "https://a.example/privacy" -> { "Privacy Policy" }
    [] url = "https://b.example/contact" -> { "Call John Doe" }
    [] url = "https://b.example/blog" -> { "Our blog" }
    [] url = "https://b.example/ship" -> { "Shipping, return, refund" }
    [] url = "https://b.example/rates" -> { "Shipping rates" }
    [] url = "https://c.example/privacy" -> { "Privacy Notice" }
    [] url = "https://c.example/terms" -> { "Terms of Service" }
    [] url = "https://c.example/refund" ->
         { "Refund, return, delivery, cancel. Acme Traders", "Refund, return, delivery, cancel." }
    [] url \in Websites -> { "Welcome" }
    [] OTHER -> { "" }

\* the rows input.xlsx can hold ("" is an empty cell)
Rows ==
  [ Website : Websites, MerchantType : {"goods", "services"},
    EntityType : {"proprietorship", "Private Limited"},
    LegalName : {"", "Acme Traders LLC", "John Doe"},
    Email : {"", "owner@example.com"} ]
  \cup
  { [ Website |-> "", MerchantType |-> "goods", EntityType |-> "", LegalName |-> "", Email |-> "" ] }

MaxRows == 2

\* ----------------------------------------------------------------- STATE

VARIABLES
  n,             \* data.length
  i,             \* the loop variable of the batch loop (0-based)
  row,           \* data[i] as read from the sheet
  data,          \* the result columns written so far, one entry per row handled
  emailsToSend,  \* the emails composed so far
  emailContent,  \* the email composed for the current row (NoEmail when none)
  pc,            \* where the program is
  result,        \* checkWebsite's result object
  links,         \* checkWebsite's normalized homepage links
  visitedPages,  \* checkWebsite's cache of the pages fetched in the primary pass
  cur,           \* the document loaded in the browser page
  pi,            \* primary pass: index in ORDER of the policy being processed
  li,            \* primary pass: index in links of the link being processed
  gi,            \* group resolution: the loop variable i
  ci,            \* comprehensive search: index in otherPages
  ri,            \* comprehensive search: index in relevantLinks.slice(0, 2)
  navigatedFor,  \* history: the policies on whose behalf safeGoto was called
  matcherCalled, \* history: containsLegalName was called in this audit
  gotoFailed,    \* history: the calls of safeGoto that returned false in this audit:
                 \* "homepage" is the first call, "link" any later one
  evaluated,     \* history: the final evaluation of this audit ran
  verification,  \* history: how the verification step of this audit went: "none" before
                 \* it, then "skipped", "failed", "rejected", "matched" or "reset"
  fn,            \* function-level runs: the function called ("none" in a batch run)
  arg,           \* function-level runs: its arguments
  out            \* function-level runs: << >> before the call, <<value>> after it

vars == << n, i, row, data, emailsToSend, emailContent, pc, result, links, visitedPages, cur,
           pi, li, gi, ci, ri, navigatedFor, matcherCalled, gotoFailed, evaluated,
          verification, fn, arg, out >>

NoRow == [ none |-> TRUE ]
NoResult == [ none |-> TRUE ]
NoEmail == [ subject |-> NULL, to |-> NULL, body |-> NULL ]

\* the arguments main passes to checkWebsite
argMerchantType == IF row.MerchantType = "" THEN "goods" ELSE row.MerchantType
argEntityType == IF row.EntityType = "" THEN "proprietorship" ELSE row.EntityType
argLegalName == row.LegalName
argEmail == row.Email

\* the constants of one call of checkWebsite; the call computes merchantType
\* and isProprietorEntity once and stores them in its result
merchantType == result.determinedMerchantType
legalName == result.legalName
ORDER == POLICY_ORDER[merchantType]
GROUP == RESOLVABLE_GROUP[merchantType]
isProprietorEntity == result.isProprietorship

Range(seq) == { seq[k] : k \in 1..Len(seq) }

\* --------------------------------------------------- RESULT CONSTRUCTION

Outcome(present, url, pageText, status) ==
  [ present |-> present, url |-> url, pageText |-> pageText, status |-> status ]

\* the result object and the initialisation of its policies
InitResult(website, merchantTypeInput, entityType, legalNameRaw) ==
  LET mt == determineMerchantType(merchantTypeInput)
      prop == isProprietorship(entityType)
  IN  [ website |-> website,
        merchantType |-> merchantTypeInput,
        determinedMerchantType |-> mt,
        entityType |-> entityType,
        isProprietorship |-> prop,
        legalName |-> IF legalNameRaw = NULL THEN "" ELSE legalNameRaw,
        legalNamePresent |-> IF prop THEN "false" ELSE "NOT RELEVANT",
        legalNameURL |-> NULL,
        policies |-> [ p \in Range(PolicyKeys) |->
                         IF isPolicyRelevant(p, mt)
                           THEN Outcome(FALSE, NULL, NULL, "MISSING")
                           ELSE Outcome(FALSE, NULL, NULL, "NOT RELEVANT") ],
        missingPolicies |-> << >>,
        allRelevantPoliciesMissing |-> FALSE,
        complianceStatus |-> "FAIL",
        error |-> NULL ]

\* variant: the test of the supplied legal name left out
matcherReached_noNameTest(res) ==
  isProprietorEntity /\ res.legalNamePresent = "false"

\* the part of the legal-name conditions that is evaluated before the call
\* of containsLegalName (&& evaluates left to right and stops at a false)
matcherReached(res) ==
  isProprietorEntity /\ res.legalNamePresent = "false" /\ legalName # ""

\* "Check for legal name in policy text for proprietorships"
noteLegalName(res, pageText, url) ==
  IF matcherReached(res) /\ containsLegalName(pageText, legalName)
    THEN [res EXCEPT !.legalNamePresent = "true", !.legalNameURL = url]
    ELSE res

\* variant: an audit that ended in the catch flagged for manual checking
caught_flagged(res, message) ==
  [res EXCEPT !.error = message, !.allRelevantPoliciesMissing = TRUE]

\* a rejected page call, caught by the catch of checkWebsite
caught(res, message) == [res EXCEPT !.error = message]

EvalError == "page.$$eval: Execution context was destroyed"
TextError == "page.textContent: Timeout 30000ms exceeded"

\* the documents the browser can show after safeGoto(page, url) returned false
AfterFailedGoto(url) == {cur, ErrorPage}

\* ----------------------------------------------------------- BATCH LOOP

Init ==
  /\ n \in 1..MaxRows
  /\ i = 0
  /\ row = NoRow
  /\ data = << >>
  /\ emailsToSend = << >>
  /\ emailContent = NoEmail
  /\ pc = "loop"
  /\ result = NoResult
  /\ links = << >>
  /\ visitedPages = << >>
  /\ cur = BlankPage
  /\ pi = 1 /\ li = 1 /\ gi = 0 /\ ci = 1 /\ ri = 1
  /\ navigatedFor = {}
  /\ matcherCalled = FALSE
  /\ gotoFailed = {}
  /\ evaluated = FALSE
  /\ verification = "none"
  /\ fn = "none" /\ arg = << >> /\ out = << >>

auditVars == << result, links, visitedPages, pi, li, gi, ci, ri >>
historyVars == << navigatedFor, matcherCalled, gotoFailed, evaluated, verification >>
batchVars == << n, i, row, data, emailsToSend, emailContent >>
unitVars == << fn, arg, out >>

\* a row without a website URL is skipped
SkipRow ==
  /\ pc = "loop" /\ i < n
  /\ \E r \in Rows :
       /\ r.Website = ""
       /\ row' = NoRow
       /\ data' = Append(data, [ audited |-> FALSE ])
  /\ i' = i + 1
  /\ UNCHANGED << n, emailsToSend, emailContent, pc, cur >>
  /\ UNCHANGED unitVars
  /\ UNCHANGED auditVars
  /\ UNCHANGED historyVars

\* a row with a website URL: checkWebsite is called and builds its result
StartAudit ==
  /\ pc = "loop" /\ i < n
  /\ \E r \in Rows :
       /\ r.Website # ""
       /\ row' = r
       /\ result' = InitResult(r.Website,
                               IF r.MerchantType = "" THEN "goods" ELSE r.MerchantType,
                               IF r.EntityType = "" THEN "proprietorship" ELSE r.EntityType,
                               r.LegalName)
  /\ pc' = "load"
  /\ links' = << >>
  /\ visitedPages' = << >>
  /\ pi' = 1 /\ li' = 1 /\ gi' = 0 /\ ci' = 1 /\ ri' = 1
  /\ navigatedFor' = {}
  /\ matcherCalled' = FALSE
  /\ gotoFailed' = {}
  /\ evaluated' = FALSE
  /\ verification' = "none"
  /\ UNCHANGED << n, i, data, emailsToSend, emailContent, cur >>
  /\ UNCHANGED unitVars

\* the two "continue" tests at the head of the link loop
linkSkipped(link, policy) ==
  \/ link.href = ""
  \/ link.text = ""
  \/ ~containsAny(link.text, POLICY_CONFIG[policy].anchorHints)

\* the next iteration of the two loops, from policy p and link l on, that
\* reaches safeGoto: not-relevant policies and skipped links are passed over
\* (<<Len(order) + 1, 1>> when the loops end first)
RECURSIVE pass1Next(_, _, _, _, _)
pass1Next(order, mt, lnks, p, l) ==
  IF p > Len(order) THEN <<p, 1>>
  ELSE IF ~isPolicyRelevant(order[p], mt) \/ l > Len(lnks) THEN pass1Next(order, mt, lnks, p + 1, 1)
  ELSE IF linkSkipped(lnks[l], order[p]) THEN pass1Next(order, mt, lnks, p, l + 1)
  ELSE <<p, l>>

\* links = rawLinks.map(l => ({ text: normalize(l.text), href: l.href }))
normalizeLinks(rawLinks) ==
  [ k \in 1..Len(rawLinks) |-> [ text |-> normalize(rawLinks[k].text), href |-> rawLinks[k].href ] ]

\* variant: the value of the first safeGoto not looked at
LoadHomepage_failureIgnored ==
  /\ pc = "load"
  /\ \E ok \in BOOLEAN :
       \E doc \in (IF ok THEN {result.website} ELSE AfterFailedGoto(result.website)) :
         /\ cur' = doc
         /\ gotoFailed' = IF ok THEN gotoFailed ELSE {"homepage"}
         /\ \/ /\ result' = caught(result, EvalError)
               /\ pc' = "returned"
               /\ UNCHANGED links
            \/ /\ links' = normalizeLinks(RawLinks(doc))
               /\ pc' = "pass1"
               /\ UNCHANGED result
  /\ LET first == pass1Next(ORDER, merchantType, links', 1, 1)
     IN  pi' = first[1] /\ li' = first[2]
  /\ UNCHANGED << visitedPages, gi, ci, ri >>
  /\ UNCHANGED batchVars
  /\ UNCHANGED unitVars
  /\ UNCHANGED << navigatedFor, matcherCalled, evaluated >>
  /\ UNCHANGED verification

\* safeGoto(page, website) at the start of the audit, then the link extraction
LoadHomepage ==
  /\ pc = "load"
  /\ \E ok \in BOOLEAN :
       IF ~ok
         THEN /\ cur' \in AfterFailedGoto(result.website)
              /\ result' = [result EXCEPT !.error = "Failed to load website"]
              /\ pc' = "returned"
              /\ gotoFailed' = {"homepage"}
              /\ UNCHANGED links
         ELSE /\ cur' = result.website
              /\ UNCHANGED gotoFailed
              /\ \/ /\ result' = caught(result, EvalError)
                    /\ pc' = "returned"
                    /\ UNCHANGED links
                 \/ /\ links' = normalizeLinks(RawLinks(result.website))
                    /\ pc' = "pass1"
                    /\ UNCHANGED result
  /\ LET first == pass1Next(ORDER, merchantType, links', 1, 1)
     IN  pi' = first[1] /\ li' = first[2]
  /\ UNCHANGED << visitedPages, gi, ci, ri >>
  /\ UNCHANGED batchVars
  /\ UNCHANGED unitVars
  /\ UNCHANGED << navigatedFor, matcherCalled, evaluated >>
  /\ UNCHANGED verification

\* ------------------------------------------------ PRIMARY PASS (ORDERED)

\* the policy loop is over
Pass1Done ==
  /\ pc = "pass1" /\ pi > Len(ORDER)
  /\ pc' = "group"
  /\ gi' = 0
  /\ UNCHANGED << result, links, visitedPages, pi, li, ci, ri, cur >>
  /\ UNCHANGED batchVars
  /\ UNCHANGED unitVars
  /\ UNCHANGED historyVars

\* variant: the URL of the homepage recorded in place of the link's
pass1Found_homeUrl(res, policy, href, pageText) ==
  noteLegalName([res EXCEPT !.policies[policy] = Outcome(TRUE, res.website, pageText, "FOUND")],
                pageText, res.website)

\* the outcome and the legal-name fields after a page passed the keyword test
pass1Found(res, policy, href, pageText) ==
  noteLegalName([res EXCEPT !.policies[policy] = Outcome(TRUE, href, pageText, "FOUND")],
                pageText, href)

\* variant: the link loop not left after a page passed the keyword test
afterBreak_noBreak(p, l) == pass1Next(ORDER, merchantType, links, p, l + 1)

\* "break": the link loop is left, the policy loop goes on with the next policy
afterBreak(p, l) == pass1Next(ORDER, merchantType, links, p + 1, 1)

\* variant: the link loop left after the first page that was tried
afterContinue_break(p, l) == pass1Next(ORDER, merchantType, links, p + 1, 1)

\* "continue" past a failed navigation, and the end of the loop body when the
\* page failed the keyword test: the link loop goes on with the next link
afterContinue(p, l) == pass1Next(ORDER, merchantType, links, p, l + 1)

\* a link whose text has an anchor hint: navigate, read, cache, test
Pass1Goto ==
  /\ pc = "pass1" /\ pi <= Len(ORDER)
  /\ LET policy == ORDER[pi]
         link == links[li]
         continue == afterContinue(pi, li)
         break == afterBreak(pi, li)
     IN  /\ navigatedFor' = navigatedFor \cup {policy}
         /\ \E ok \in BOOLEAN :
              IF ~ok
                THEN \* if (!ok) continue
                     /\ cur' \in AfterFailedGoto(link.href)
                     /\ gotoFailed' = gotoFailed \cup {"link"}
                     /\ pi' = continue[1] /\ li' = continue[2]
                     /\ UNCHANGED << result, visitedPages, pc, matcherCalled >>
                ELSE \/ \* page.textContent rejects
                        /\ cur' = link.href
                        /\ result' = caught(result, TextError)
                        /\ pc' = "returned"
                        /\ UNCHANGED << visitedPages, pi, li, gotoFailed, matcherCalled >>
                     \/ \E body \in Bodies(link.href) :
                          LET pageText == normalize(body)
                          IN  /\ visitedPages' = Append(visitedPages,
                                   [ url |-> link.href, pageText |-> pageText, policyType |-> policy ])
                              /\ IF containsAny(pageText, POLICY_CONFIG[policy].pageKeywords)
                                   THEN /\ result' = pass1Found(result, policy, link.href, pageText)
                                        /\ matcherCalled' = (matcherCalled \/ matcherReached(result))
                                        \* await safeGoto(page, website); break
                                        /\ \E back \in BOOLEAN :
                                             IF back
                                               THEN cur' = result.website /\ UNCHANGED gotoFailed
                                               ELSE cur' \in {link.href, ErrorPage} /\ gotoFailed' = gotoFailed \cup {"link"}
                                        /\ pi' = break[1] /\ li' = break[2]
                                        /\ UNCHANGED pc
                                   ELSE /\ cur' = link.href
                                        /\ pi' = continue[1] /\ li' = continue[2]
                                        /\ UNCHANGED << result, pc, gotoFailed, matcherCalled >>
  /\ UNCHANGED << links, gi, ci, ri, evaluated >>
  /\ UNCHANGED batchVars
  /\ UNCHANGED unitVars
  /\ UNCHANGED verification

\* ------------------------------------------------------- GROUP RESOLUTION

truthyText(t) == t # NULL /\ t # ""

\* GROUP.map(p => result.policies[p]).filter(p => p && p.present && p.pageText)
presentSources(res) ==
  LET all == [ k \in 1..Len(GROUP) |-> res.policies[GROUP[k]] ]
      Keep(p) == p.present /\ truthyText(p.pageText)
  IN  SelectSeq(all, Keep)

\* the loop "for (const policy of GROUP)" from GROUP[k] on; acc.res is the
\* result and acc.called tells whether the matcher has been called
RECURSIVE groupPolicies(_, _, _)
groupPolicies(acc, sources, k) ==
  IF k > Len(GROUP) THEN acc
  ELSE
    LET policy == GROUP[k]
        hits == { x \in 1..Len(sources) :
                    containsAny(sources[x].pageText, POLICY_CONFIG[policy].pageKeywords) }
    IN  IF ~isPolicyRelevant(policy, merchantType) \/ acc.res.policies[policy].present \/ hits = {}
          THEN groupPolicies(acc, sources, k + 1)
          ELSE LET source == sources[CHOOSE x \in hits : \A y \in hits : x <= y]
                   r1 == [acc.res EXCEPT !.policies[policy] =
                             Outcome(TRUE, source.url, source.pageText, "FOUND")]
               IN  groupPolicies([ res |-> noteLegalName(r1, source.pageText, source.url),
                                   called |-> (acc.called \/ matcherReached(r1)) ],
                                 sources, k + 1)

\* one iteration of the outer loop that has present sources
GroupIteration ==
  /\ pc = "group" /\ gi < Len(GROUP)
  /\ Len(presentSources(result)) # 0
  /\ LET acc == groupPolicies([ res |-> result, called |-> matcherCalled ],
                              presentSources(result), 1)
     IN  /\ result' = acc.res
         /\ matcherCalled' = acc.called
  /\ gi' = gi + 1
  /\ UNCHANGED << links, visitedPages, pi, li, ci, ri, pc, cur >>
  /\ UNCHANGED << navigatedFor, gotoFailed, evaluated >>
  /\ UNCHANGED batchVars
  /\ UNCHANGED unitVars
  /\ UNCHANGED verification

\* variant: the loop left whether or not an iteration is due
GroupExit_atOnce ==
  /\ pc = "group"
  /\ pc' = "verify"
  /\ UNCHANGED << result, links, visitedPages, pi, li, gi, ci, ri, cur >>
  /\ UNCHANGED batchVars
  /\ UNCHANGED unitVars
  /\ UNCHANGED historyVars

\* the loop condition fails, or "if (presentSources.length === 0) break"
GroupExit ==
  /\ pc = "group"
  /\ gi >= Len(GROUP) \/ Len(presentSources(result)) = 0
  /\ pc' = "verify"
  /\ UNCHANGED << result, links, visitedPages, pi, li, gi, ci, ri, cur >>
  /\ UNCHANGED batchVars
  /\ UNCHANGED unitVars
  /\ UNCHANGED historyVars

\* ----------------------------------------------------- VERIFICATION STEP

\* variant: the legal-name fields kept whatever the fresh text holds
verified_kept(res, verifyText) == res

\* the legal-name fields after the matcher ran on the fresh text
verified(res, verifyText) ==
  IF ~containsLegalName(verifyText, legalName)
    THEN [res EXCEPT !.legalNamePresent = "false", !.legalNameURL = NULL]
    ELSE res

Verify ==
  /\ pc = "verify"
  /\ IF isProprietorEntity /\ result.legalNamePresent = "true" /\ result.legalNameURL # NULL
       THEN \E verifyOk \in BOOLEAN :
              IF ~verifyOk
                THEN /\ cur' \in AfterFailedGoto(result.legalNameURL)
                     /\ gotoFailed' = gotoFailed \cup {"link"}
                     /\ pc' = "search"
                     /\ verification' = "failed"
                     /\ UNCHANGED << result, matcherCalled >>
                ELSE /\ cur' = result.legalNameURL
                     /\ UNCHANGED gotoFailed
                     /\ \/ /\ result' = caught(result, TextError)
                           /\ pc' = "returned"
                           /\ verification' = "rejected"
                           /\ UNCHANGED matcherCalled
                        \/ \E body \in Bodies(result.legalNameURL) :
                             LET verifyText == normalize(body)
                             IN  /\ result' = verified(result, verifyText)
                                 /\ verification' = IF containsLegalName(verifyText, legalName)
                                                      THEN "matched" ELSE "reset"
                                 /\ matcherCalled' = TRUE
                                 /\ pc' = "search"
       ELSE /\ pc' = "search"
            /\ verification' = "skipped"
            /\ UNCHANGED << result, cur, gotoFailed, matcherCalled >>
  /\ UNCHANGED << links, visitedPages, pi, li, gi, ci, ri >>
  /\ UNCHANGED << navigatedFor, evaluated >>
  /\ UNCHANGED batchVars
  /\ UNCHANGED unitVars

\* --------------------------------------------------- COMPREHENSIVE SEARCH

\* variant: the flag set and the URL forgotten
legalNameFound_noUrl(res, url) ==
  [res EXCEPT !.legalNamePresent = "true"]

\* the two assignments of a hit of the comprehensive search
legalNameFound(res, url) ==
  [res EXCEPT !.legalNamePresent = "true", !.legalNameURL = url]

\* "1. Check all visited pages first"
SearchCache ==
  /\ pc = "search"
  /\ IF matcherReached(result)
       THEN LET hits == { k \in 1..Len(visitedPages) :
                            containsLegalName(visitedPages[k].pageText, legalName) }
            IN  /\ matcherCalled' = (matcherCalled \/ Len(visitedPages) > 0)
                /\ IF hits = {}
                     THEN pc' = "search_home" /\ UNCHANGED result
                     ELSE /\ result' = legalNameFound(result,
                                 visitedPages[CHOOSE k \in hits : \A m \in hits : k <= m].url)
                          /\ pc' = "final"
       ELSE /\ pc' = "final"
            /\ UNCHANGED << result, matcherCalled >>
  /\ UNCHANGED << links, visitedPages, pi, li, gi, ci, ri, cur >>
  /\ UNCHANGED << navigatedFor, gotoFailed, evaluated >>
  /\ UNCHANGED batchVars
  /\ UNCHANGED unitVars
  /\ UNCHANGED verification

otherPages == <<"contact", "about", "info", "us", "company">>

MaxLinksPerCategory == 2

\* variant: every matching link of the category kept
relevantLinks_all(pageType) ==
  LET Keep(link) == includes(link.text, pageType) /\ link.href # ""
  IN  SelectSeq(links, Keep)

\* links.filter(link => link.text.includes(pageType) && link.href).slice(0, 2)
relevantLinks(pageType) ==
  LET Keep(link) == includes(link.text, pageType) /\ link.href # ""
      all == SelectSeq(links, Keep)
  IN  SubSeq(all, 1, IF Len(all) < MaxLinksPerCategory THEN Len(all) ELSE MaxLinksPerCategory)

\* the next iteration of the two loops, from category c and link r on, that
\* reaches safeGoto (<<Len(otherPages) + 1, 1>> when the loops end first)
RECURSIVE searchNext(_, _)
searchNext(c, r) ==
  IF c > Len(otherPages) THEN <<c, 1>>
  ELSE IF r > Len(relevantLinks(otherPages[c])) THEN searchNext(c + 1, 1)
  ELSE <<c, r>>

\* "2. Check homepage": the value of safeGoto is not looked at
SearchHome ==
  /\ pc = "search_home"
  /\ \E ok \in BOOLEAN :
       /\ gotoFailed' = IF ok THEN gotoFailed ELSE gotoFailed \cup {"link"}
       /\ \E doc \in (IF ok THEN {result.website} ELSE AfterFailedGoto(result.website)) :
            /\ cur' = doc
            /\ \/ /\ result' = caught(result, TextError)
                  /\ pc' = "returned"
                  /\ UNCHANGED matcherCalled
               \/ \E body \in Bodies(doc) :
                    LET homepageText == normalize(body)
                    IN  /\ matcherCalled' = TRUE
                        /\ IF containsLegalName(homepageText, legalName)
                             THEN /\ result' = legalNameFound(result, result.website)
                                  /\ pc' = "final"
                             ELSE /\ pc' = "search_links"
                                  /\ UNCHANGED result
  /\ LET first == searchNext(1, 1)
     IN  ci' = first[1] /\ ri' = first[2]
  /\ UNCHANGED << links, visitedPages, pi, li, gi >>
  /\ UNCHANGED << navigatedFor, evaluated >>
  /\ UNCHANGED batchVars
  /\ UNCHANGED unitVars
  /\ UNCHANGED verification

\* "3. Check other common pages": one link of one category
SearchGoto ==
  /\ pc = "search_links" /\ ci <= Len(otherPages)
  /\ LET link == relevantLinks(otherPages[ci])[ri]
         continue == searchNext(ci, ri + 1)
     IN  \E ok \in BOOLEAN :
           IF ~ok
             THEN /\ cur' \in AfterFailedGoto(link.href)
                  /\ gotoFailed' = gotoFailed \cup {"link"}
                  /\ ci' = continue[1] /\ ri' = continue[2]
                  /\ UNCHANGED << result, pc, matcherCalled >>
             ELSE \/ /\ cur' = link.href
                     /\ result' = caught(result, TextError)
                     /\ pc' = "returned"
                     /\ UNCHANGED << ci, ri, gotoFailed, matcherCalled >>
                  \/ \E body \in Bodies(link.href) :
                       LET pageText == normalize(body)
                       IN  /\ matcherCalled' = TRUE
                           /\ IF containsLegalName(pageText, legalName)
                                THEN /\ result' = legalNameFound(result, link.href)
                                     /\ cur' = link.href
                                     /\ pc' = "final"
                                     /\ UNCHANGED << ci, ri, gotoFailed >>
                                ELSE \* await safeGoto(page, website)
                                     /\ \E back \in BOOLEAN :
                                          IF back
                                            THEN cur' = result.website /\ UNCHANGED gotoFailed
                                            ELSE cur' \in {link.href, ErrorPage} /\ gotoFailed' = gotoFailed \cup {"link"}
                                     /\ ci' = continue[1] /\ ri' = continue[2]
                                     /\ UNCHANGED << result, pc >>
  /\ UNCHANGED << links, visitedPages, pi, li, gi >>
  /\ UNCHANGED << navigatedFor, evaluated >>
  /\ UNCHANGED batchVars
  /\ UNCHANGED unitVars
  /\ UNCHANGED verification

\* the categories are used up
SearchDone ==
  /\ pc = "search_links" /\ ci > Len(otherPages)
  /\ pc' = "final"
  /\ UNCHANGED << result, links, visitedPages, pi, li, gi, ci, ri, cur >>
  /\ UNCHANGED batchVars
  /\ UNCHANGED unitVars
  /\ UNCHANGED historyVars

\* ------------------------------------------------------- FINAL EVALUATION

\* the policies pushed by the loop over ORDER, in its order
missingOf(res) ==
  LET Missing(policy) == isPolicyRelevant(policy, merchantType) /\ ~res.policies[policy].present
  IN  SelectSeq(ORDER, Missing)

\* variant: the test of the supplied legal name left out
legalNameMissing_noNameTest(res) ==
  isProprietorEntity /\ res.legalNamePresent = "false"

\* "Add legal name to missing policies if it's a proprietorship and legal name not found"
legalNameMissing(res) ==
  isProprietorEntity /\ res.legalNamePresent = "false" /\ legalName # ""

\* the policies after the loop: status MISSING set, pageText deleted
evaluatedPolicies(res) ==
  [ p \in DOMAIN res.policies |->
      IF p \in Range(ORDER) /\ isPolicyRelevant(p, merchantType)
        THEN [ res.policies[p] EXCEPT
                 !.status = IF ~res.policies[p].present THEN "MISSING" ELSE @,
                 !.pageText = NULL ]
        ELSE res.policies[p] ]

\* variant: the number of found policies compared with the number of relevant ones
allRelevantPoliciesMissingOf_allFound(res) ==
  LET Relevant(policy) == isPolicyRelevant(policy, merchantType)
      Found(policy) == isPolicyRelevant(policy, merchantType) /\ res.policies[policy].present = TRUE
  IN  Len(SelectSeq(ORDER, Found)) = Len(SelectSeq(ORDER, Relevant))

\* foundRelevantPolicies.length === 0
allRelevantPoliciesMissingOf(res) ==
  LET Found(policy) == isPolicyRelevant(policy, merchantType) /\ res.policies[policy].present = TRUE
  IN  Len(SelectSeq(ORDER, Found)) = 0

\* variant: the legal name left out of the verdict
complianceOf_policiesOnly(res) ==
  IF \A k \in 1..Len(ORDER) :
       ~isPolicyRelevant(ORDER[k], merchantType) \/ res.policies[ORDER[k]].present
    THEN "PASS" ELSE res.complianceStatus

\* "Check compliance"
complianceOf(res) ==
  LET allRelevantPoliciesPresent ==
        \A k \in 1..Len(ORDER) :
           ~isPolicyRelevant(ORDER[k], merchantType) \/ res.policies[ORDER[k]].present
      legalNameOk == ~isProprietorEntity \/ res.legalNamePresent = "true"
  IN  IF allRelevantPoliciesPresent /\ legalNameOk THEN "PASS" ELSE res.complianceStatus

FinalEvaluation ==
  /\ pc = "final"
  /\ result' = [ result EXCEPT
                   !.missingPolicies = (@ \o missingOf(result)) \o
                        (IF legalNameMissing(result) THEN <<"legal name">> ELSE << >>),
                   !.policies = evaluatedPolicies(result),
                   !.allRelevantPoliciesMissing = allRelevantPoliciesMissingOf(result),
                   !.complianceStatus = complianceOf(result) ]
  /\ evaluated' = TRUE
  /\ pc' = "returned"
  /\ UNCHANGED << links, visitedPages, pi, li, gi, ci, ri, cur >>
  /\ UNCHANGED << navigatedFor, matcherCalled, gotoFailed >>
  /\ UNCHANGED batchVars
  /\ UNCHANGED unitVars
  /\ UNCHANGED verification

\* ------------------------------------------------------------- EMAILS

\* otherMissingPolicies.map(policy => display name)
displayNameOf(policy) ==
  CASE policy = "privacy" -> "Privacy Policy"
    [] policy = "terms" -> "Terms and Conditions"
    [] policy = "shipping" -> "Shipping Policy"
    [] policy = "returns" -> "Returns Policy"
    [] policy = "refund" -> "Refund Policy"
    [] policy = "cancellation" -> "Cancellation Policy"
    [] OTHER -> policy

\* Array.prototype.join
RECURSIVE join(_, _)
join(seq, sep) ==
  IF Len(seq) = 0 THEN ""
  ELSE IF Len(seq) = 1 THEN seq[1]
  ELSE seq[1] \o sep \o join(Tail(seq), sep)

\* new Date().getFullYear(), as text
CurrentYear == "2026"

\* "Add legal name section if missing" (the bullet character of the source
\* is written * here, the copyright sign (c))
legalSection(hasLegalNameMissing, isProprietor, legalNameArg) ==
  IF hasLegalNameMissing /\ isProprietor
    THEN "1. As the company has been registered as a proprietorship, RBI guidelines require you to display your legal name on the website. Please update the website to display your registered legal name: "
         \o legalNameArg \o "\n\n"
         \o "   Possible locations to display your legal name:\n"
         \o "   * Website Footer (Most common)\n"
         \o "   * About Us page\n"
         \o "   * Contact Us page\n"
         \o "   * Site-Wide copyright notice (e.g., (c) " \o CurrentYear \o " " \o legalNameArg
         \o ". All rights reserved.)\n\n"
    ELSE ""

\* variant: the policies section written whatever the number of policies
policySection_always(hasLegalNameMissing, otherMissingPolicies) ==
  (IF hasLegalNameMissing THEN "2. " ELSE "")
  \o "It is required that you add the following policies to your website for legal protection:\n"
  \o "   * "
  \o join([ k \in 1..Len(otherMissingPolicies) |-> displayNameOf(otherMissingPolicies[k]) ],
          "\n   * ")
  \o "\n\n"

\* "Add policies section if missing"
policySection(hasLegalNameMissing, otherMissingPolicies) ==
  IF Len(otherMissingPolicies) > 0
    THEN (IF hasLegalNameMissing THEN "2. " ELSE "")
         \o "It is required that you add the following policies to your website for legal protection:\n"
         \o "   * "
         \o join([ k \in 1..Len(otherMissingPolicies) |-> displayNameOf(otherMissingPolicies[k]) ],
                 "\n   * ")
         \o "\n\n"
    ELSE ""

generateEmailContent(website, legalNameArg, merchantEmail, missingPolicies, entityType) ==
  LET isProprietor == isProprietorship(entityType)
      hasLegalNameMissing == "legal name" \in Range(missingPolicies)
      Other(p) == p # "legal name"
      otherMissingPolicies == SelectSeq(missingPolicies, Other)
      greeting == "Dear " \o (IF legalNameArg = "" THEN "Merchant" ELSE legalNameArg) \o ",\n\n"
      intro == "Following our initial review for your PayGlocal onboarding, we need your assistance to ensure your website meets our required compliance standards.\n\n"
      please == "Please implement the following updates on " \o website \o ":\n\n"
      closing == "These updates are necessary before we can activate your account. Once completed, kindly notify us so we can verify and proceed.\n\n"
                 \o "Thank you for your prompt attention to this.\n\n"
                 \o "Sincerely,\nPayGlocal Onboarding Team"
  IN  [ subject |-> "PayGlocal Onboarding: Website Updates Needed",
        to |-> merchantEmail,
        body |-> greeting \o intro \o please
                 \o legalSection(hasLegalNameMissing, isProprietor, legalNameArg)
                 \o policySection(hasLegalNameMissing, otherMissingPolicies)
                 \o closing ]

\* variant: the test of the manual-review flag left out
emailDue_noManualTest(res, merchantEmail) ==
  /\ res.complianceStatus = "FAIL"
  /\ merchantEmail # ""
  /\ Len(res.missingPolicies) > 0

\* "Generate email if conditions are met"
emailDue(res, merchantEmail) ==
  /\ res.complianceStatus = "FAIL"
  /\ ~res.allRelevantPoliciesMissing
  /\ merchantEmail # ""
  /\ Len(res.missingPolicies) > 0

\* the columns written to data[i]; the per-policy columns and the copies of
\* result fields that no step reads again are left out
writtenRow(res, emailed) ==
  [ audited |-> TRUE,
    ComplianceStatus |-> res.complianceStatus,
    Error |-> res.error,
    ManualCheckingRequired |-> IF res.allRelevantPoliciesMissing THEN "YES" ELSE "NO",
    EmailGenerated |-> IF emailed THEN "YES" ELSE "NO" ]

\* checkWebsite has returned: the row is written and the email composed
WriteRow ==
  /\ pc = "returned"
  /\ LET due == emailDue(result, argEmail)
     IN  /\ data' = Append(data, writtenRow(result, due))
         /\ emailContent' = IF due
                              THEN generateEmailContent(result.website, argLegalName, argEmail,
                                                        result.missingPolicies, argEntityType)
                              ELSE NoEmail
         /\ emailsToSend' = IF due THEN Append(emailsToSend, [ index |-> i ]) ELSE emailsToSend
  /\ pc' = "written"
  /\ UNCHANGED << n, i, row, cur >>
  /\ UNCHANGED unitVars
  /\ UNCHANGED auditVars
  /\ UNCHANGED historyVars

\* variant: the batch given up after an audit that ended with an error
NextIteration_stopOnError ==
  /\ pc = "written"
  /\ i' = i + 1
  /\ pc' = IF result.error # NULL THEN "finished" ELSE "loop"
  /\ row' = NoRow
  /\ result' = NoResult
  /\ emailContent' = NoEmail
  /\ links' = << >>
  /\ visitedPages' = << >>
  /\ pi' = 1 /\ li' = 1 /\ gi' = 0 /\ ci' = 1 /\ ri' = 1
  /\ navigatedFor' = {}
  /\ matcherCalled' = FALSE
  /\ gotoFailed' = {}
  /\ evaluated' = FALSE
  /\ verification' = "none"
  /\ cur' = StalePage
  /\ UNCHANGED << n, data, emailsToSend >>
  /\ UNCHANGED unitVars

\* the delay between requests, then i++; the locals of the loop body end
NextIteration ==
  /\ pc = "written"
  /\ i' = i + 1
  /\ pc' = "loop"
  /\ row' = NoRow
  /\ result' = NoResult
  /\ emailContent' = NoEmail
  /\ links' = << >>
  /\ visitedPages' = << >>
  /\ pi' = 1 /\ li' = 1 /\ gi' = 0 /\ ci' = 1 /\ ri' = 1
  /\ navigatedFor' = {}
  /\ matcherCalled' = FALSE
  /\ gotoFailed' = {}
  /\ evaluated' = FALSE
  /\ verification' = "none"
  /\ cur' = StalePage
  /\ UNCHANGED << n, data, emailsToSend >>
  /\ UNCHANGED unitVars

\* the loop is over: the browser is closed and output.xlsx written
Finish ==
  /\ pc = "loop" /\ i >= n
  /\ pc' = "finished"
  /\ UNCHANGED << cur >>
  /\ UNCHANGED batchVars
  /\ UNCHANGED unitVars
  /\ UNCHANGED auditVars
  /\ UNCHANGED historyVars

Next ==
  \/ SkipRow
  \/ StartAudit
  \/ LoadHomepage
  \/ Pass1Done
  \/ Pass1Goto
  \/ GroupIteration
  \/ GroupExit
  \/ Verify
  \/ SearchCache
  \/ SearchHome
  \/ SearchGoto
  \/ SearchDone
  \/ FinalEvaluation
  \/ WriteRow
  \/ NextIteration
  \/ Finish

Spec == Init /\ [][Next]_vars

\* The batch loop on a sheet whose rows with a URL are those of one merchant
\* profile on each of the three sites: the steps of an audit are those of
\* Next, the environment still fails navigations and rejects page calls at
\* will, only the sheet is smaller.
BatchRows ==
  { r \in Rows : /\ r.MerchantType = "goods" /\ r.EntityType = "proprietorship"
                 /\ r.LegalName = "John Doe" /\ r.Email = "owner@example.com" }

BatchNext ==
  \/ SkipRow
  \/ StartAudit /\ row' \in BatchRows
  \/ LoadHomepage
  \/ Pass1Done
  \/ Pass1Goto
  \/ GroupIteration
  \/ GroupExit
  \/ Verify
  \/ SearchCache
  \/ SearchHome
  \/ SearchGoto
  \/ SearchDone
  \/ FinalEvaluation
  \/ WriteRow
  \/ NextIteration
  \/ Finish

\* main is one sequential async function: every awaited call settles
\* (page.goto and page.textContent reject at their timeout at the latest,
\* the delay timer fires), so a step that can be taken is taken.  This is
\* WF_vars(BatchNext) written out: a step of BatchNext that changes vars is
\* possible exactly in the states with pc # "finished".
BatchFairness == []<>(pc = "finished") \/ []<><<BatchNext>>_vars

FairSpec == Init /\ [][BatchNext]_vars /\ BatchFairness

\* ------------------------------------------------- FUNCTION-LEVEL RUNS
\* The helpers called on their own: Init draws a function and its arguments,
\* the one step applies the function.

GapSpread == 5

\* k times the letter x
RECURSIVE Xs(_)
Xs(k) ==
  IF k <= 0 THEN ""
  ELSE IF k = 1 THEN "x"
  ELSE Xs(k \div 2) \o Xs(k - k \div 2)

\* a page on which word b starts d characters after the start of word a
Apart(a, d, b) == a \o " " \o Xs(d - Len(a) - 2) \o " " \o b

Distances == (MaxDistance - GapSpread)..(MaxDistance + GapSpread)

LegalNamePages ==
  { Apart("john", d, "doe") : d \in Distances }
    \cup { Apart("doe", d, "john") : d \in Distances }
    \cup { "operated by john doe traders llc", "we are traders", "acme store",
           "john", "johnson and doe", "li wu", "" }

LegalNames ==
  { "John Doe", "John Doe Traders LLC", "AB Traders", "Acme Acme", "Acme", "Li Wu", "LLC", "" }

MerchantTypeInputs ==
  { NULL, "", "   ", "goods", "Goods and Services", "goods_services", "GOODS",
    " Physical   Goods ", "good", "services", "Services", "digital", "g o o d", "goo ds" }

UnitInit ==
  /\ n = 1 /\ i = 0 /\ row = NoRow /\ data = << >> /\ emailsToSend = << >>
  /\ emailContent = NoEmail /\ pc = "loop" /\ result = NoResult /\ links = << >>
  /\ visitedPages = << >> /\ cur = BlankPage
  /\ pi = 1 /\ li = 1 /\ gi = 0 /\ ci = 1 /\ ri = 1
  /\ navigatedFor = {} /\ matcherCalled = FALSE /\ gotoFailed = {} /\ evaluated = FALSE
  /\ verification = "none" /\ out = << >>
  /\ \/ fn = "containsLegalName" /\ arg \in LegalNamePages \X LegalNames
     \/ fn = "determineMerchantType" /\ arg \in { <<x>> : x \in MerchantTypeInputs }

programVars == << n, i, row, data, emailsToSend, emailContent, pc, result, links, visitedPages,
                  cur, pi, li, gi, ci, ri, navigatedFor, matcherCalled, gotoFailed, evaluated,
                  verification >>

CallContainsLegalName ==
  /\ fn = "containsLegalName" /\ out = << >>
  /\ out' = << containsLegalName(arg[1], arg[2]) >>
  /\ UNCHANGED << fn, arg >>
  /\ UNCHANGED programVars

CallDetermineMerchantType ==
  /\ fn = "determineMerchantType" /\ out = << >>
  /\ out' = << determineMerchantType(arg[1]) >>
  /\ UNCHANGED << fn, arg >>
  /\ UNCHANGED programVars

UnitNext ==
  \/ CallContainsLegalName
  \/ CallDetermineMerchantType

UnitSpec == UnitInit /\ [][UnitNext]_vars

\* ----------------------------------------------------------- PROPERTIES

\* checkWebsite has returned and its result is still in scope
Returned == pc \in {"returned", "written"}

\* an audit is under way or its result is still in scope
InAudit == pc \notin {"loop", "finished"}

\* the audit reached the final evaluation: it returned with no error string
Completed == Returned /\ result.error = NULL

\* the applicability of a policy kind as the documentation states it:
\* shipping and returns do not apply to a services merchant
Applicable(p, mt) == ~(mt = "services" /\ p \in {"shipping", "returns"})

RelevantKinds == { p \in Range(PolicyKeys) : Applicable(p, result.determinedMerchantType) }

NoRelevantFound == \A p \in RelevantKinds : ~result.policies[p].present

AllRelevantFound == \A p \in RelevantKinds : result.policies[p].present

LastRow == data[Len(data)]

Composed == emailContent # NoEmail

\* C1: an audit that reaches the final evaluation has complianceStatus PASS
\* exactly when every policy relevant to the determined merchant type is
\* present and the merchant is not a proprietorship or its legal name was
\* found; in every other case the status is FAIL.
C1_Verdict ==
  Completed =>
    /\ result.complianceStatus \in {"PASS", "FAIL"}
    /\ result.complianceStatus = "PASS" <=>
         ( AllRelevantFound /\ (~result.isProprietorship \/ result.legalNamePresent = "true") )

C1_Witness ==
  Completed /\ result.complianceStatus = "PASS" /\ result.isProprietorship

\* C2 (as claimed): an audit that ends without an error string has
\* complianceStatus PASS exactly when missingPolicies is empty, and FAIL
\* exactly when at least one item is listed as missing.
C2_Claim ==
  Completed => ( result.complianceStatus = "PASS" <=> Len(result.missingPolicies) = 0 )

\* C3: in every state of an audit a policy has status NOT RELEVANT exactly
\* when its kind does not apply to the determined merchant type; such a
\* policy is never navigated for, never present, never listed as missing, and
\* the verdict and the all-missing flag depend on the relevant policies only.
C3_NotRelevant ==
  InAudit =>
    /\ \A p \in Range(PolicyKeys) :
         /\ result.policies[p].status = "NOT RELEVANT" <=> p \notin RelevantKinds
         /\ p \notin RelevantKinds =>
              /\ ~result.policies[p].present
              /\ result.policies[p].url = NULL
              /\ p \notin navigatedFor
              /\ p \notin Range(result.missingPolicies)
    /\ evaluated =>
         /\ result.allRelevantPoliciesMissing <=> NoRelevantFound
         /\ result.complianceStatus = "PASS" => AllRelevantFound

C3_Witness ==
  /\ Returned /\ evaluated
  /\ result.determinedMerchantType = "services"
  /\ \E k \in 1..Len(links) :
       links[k].href # "" /\ containsAny(links[k].text, POLICY_CONFIG["shipping"].anchorHints)
  /\ result.policies["shipping"].status = "NOT RELEVANT"

\* C4 (as claimed): in every result checkWebsite returns, and in the row
\* written from it, allRelevantPoliciesMissing is true (ManualCheckingRequired
\* is YES) exactly when no policy relevant to the merchant type is present.
C4_Claim ==
  Returned =>
    /\ result.allRelevantPoliciesMissing <=> NoRelevantFound
    /\ pc = "written" => ( LastRow.ManualCheckingRequired = "YES" <=> NoRelevantFound )

\* the homepage of scenario A: a terms link and a privacy link were followed
\* and their pages accepted, no link has a shipping, returns, refund or
\* cancellation hint, and the terms page (and no other fetched page) holds the
\* legal name, a refund keyword and a cancellation keyword
ScenarioA ==
  /\ Completed
  /\ result.determinedMerchantType = "goods"
  /\ result.isProprietorship /\ result.legalName # ""
  /\ \A k \in 1..Len(links) : \A p \in {"shipping", "returns", "refund", "cancellation"} :
       ~containsAny(links[k].text, POLICY_CONFIG[p].anchorHints)
  /\ result.policies["terms"].present /\ result.policies["privacy"].present
  /\ \A k \in 1..Len(visitedPages) :
       IF visitedPages[k].url = result.policies["terms"].url
         THEN /\ containsLegalName(visitedPages[k].pageText, result.legalName)
              /\ containsAny(visitedPages[k].pageText, POLICY_CONFIG["refund"].pageKeywords)
              /\ containsAny(visitedPages[k].pageText, POLICY_CONFIG["cancellation"].pageKeywords)
              /\ ~containsAny(visitedPages[k].pageText, POLICY_CONFIG["shipping"].pageKeywords)
              /\ ~containsAny(visitedPages[k].pageText, POLICY_CONFIG["returns"].pageKeywords)
         ELSE ~containsLegalName(visitedPages[k].pageText, result.legalName)

\* C5 (as claimed): in scenario A group resolution marks refund and
\* cancellation FOUND with the URL of the terms page, shipping and returns
\* stay MISSING, the legal name is found at the terms page, the verdict is
\* FAIL and missingPolicies is [shipping, returns].
C5_Claim ==
  ScenarioA =>
    /\ \A p \in {"refund", "cancellation"} :
         /\ result.policies[p].status = "FOUND"
         /\ result.policies[p].url = result.policies["terms"].url
    /\ \A p \in {"shipping", "returns"} : result.policies[p].status = "MISSING"
    /\ result.legalNamePresent = "true"
    /\ result.legalNameURL = result.policies["terms"].url
    /\ result.complianceStatus = "FAIL"
    /\ result.missingPolicies = <<"shipping", "returns">>

\* C5 (amended): in scenario A the terms page is not a source of group
\* resolution, because terms is not a member of the resolvable group: refund
\* and cancellation stay MISSING with no URL, as shipping and returns do, the
\* legal name is found at the terms page, the verdict is FAIL and
\* missingPolicies is [shipping, returns, refund, cancellation].
C5_ScenarioA ==
  ScenarioA =>
    /\ \A p \in {"shipping", "returns", "refund", "cancellation"} :
         /\ result.policies[p].status = "MISSING"
         /\ ~result.policies[p].present
         /\ result.policies[p].url = NULL
    /\ result.legalNamePresent = "true"
    /\ result.legalNameURL = result.policies["terms"].url
    /\ result.complianceStatus = "FAIL"
    /\ result.missingPolicies = <<"shipping", "returns", "refund", "cancellation">>

C5_Witness == ScenarioA /\ pc = "written"

\* C6: an email is composed and saved for a row exactly when the verdict is
\* FAIL, allRelevantPoliciesMissing is false, a contact email is present and
\* missingPolicies is not empty; so none is composed for a merchant with no
\* relevant policy found, nor for one whose audit ended with an error.
C6_EmailIff ==
  pc = "written" =>
    /\ Composed <=> ( /\ result.complianceStatus = "FAIL"
                      /\ ~result.allRelevantPoliciesMissing
                      /\ row.Email # ""
                      /\ Len(result.missingPolicies) > 0 )
    /\ Composed <=> LastRow.EmailGenerated = "YES"
    /\ Composed <=> ( Len(emailsToSend) > 0 /\ emailsToSend[Len(emailsToSend)].index = i )
    /\ (NoRelevantFound \/ result.error # NULL) => ~Composed

C6_Witness ==
  pc = "written" /\ Composed /\ LastRow.EmailGenerated = "YES"

\* the homepage of scenario B was loaded and none of its links has an anchor
\* hint of a policy relevant to the services merchant
ScenarioB ==
  /\ pc = "written" /\ result.error = NULL
  /\ result.determinedMerchantType = "services"
  /\ ~result.isProprietorship
  /\ \A k \in 1..Len(links) : \A p \in RelevantKinds :
       ~containsAny(links[k].text, POLICY_CONFIG[p].anchorHints)

\* C7: in scenario B privacy, terms, refund and cancellation end MISSING,
\* shipping and returns NOT RELEVANT, allRelevantPoliciesMissing is true,
\* ManualCheckingRequired is YES, the verdict is FAIL, legalNamePresent is
\* "NOT RELEVANT" and no email is composed, contact email or not.
C7_ScenarioB ==
  ScenarioB =>
    /\ \A p \in {"privacy", "terms", "refund", "cancellation"} :
         result.policies[p].status = "MISSING" /\ ~result.policies[p].present
    /\ \A p \in {"shipping", "returns"} : result.policies[p].status = "NOT RELEVANT"
    /\ result.allRelevantPoliciesMissing
    /\ LastRow.ManualCheckingRequired = "YES"
    /\ result.complianceStatus = "FAIL" /\ LastRow.ComplianceStatus = "FAIL"
    /\ result.legalNamePresent = "NOT RELEVANT"
    /\ ~Composed /\ LastRow.EmailGenerated = "NO"

C7_Witness == ScenarioB /\ row.Email # "" /\ Len(links) > 0

\* the end of scenario C: every relevant policy found, a proprietorship with
\* a legal name that no fetched page matched
ScenarioC ==
  /\ pc = "written" /\ result.error = NULL
  /\ result.isProprietorship /\ result.legalName # ""
  /\ AllRelevantFound
  /\ result.legalNamePresent = "false"

\* C8: in scenario C missingPolicies is ["legal name"], the verdict is FAIL
\* with manual checking not required, and the email that is composed (when a
\* contact email is present) holds the legal-name requirement as item 1, no
\* item 2 and no policy list.
C8_ScenarioC ==
  ScenarioC =>
    /\ result.missingPolicies = <<"legal name">>
    /\ result.complianceStatus = "FAIL"
    /\ ~result.allRelevantPoliciesMissing /\ LastRow.ManualCheckingRequired = "NO"
    /\ Composed <=> row.Email # ""
    /\ Composed =>
         /\ includes(emailContent.body, "1. As the company has been registered as a proprietorship")
         /\ includes(emailContent.body, "display your registered legal name: " \o result.legalName)
         /\ ~includes(emailContent.body, "2. ")
         /\ ~includes(emailContent.body, "add the following policies")
         /\ \A p \in Range(PolicyKeys) : ~includes(emailContent.body, POLICY_CONFIG[p].displayName)

C8_Witness == ScenarioC /\ Composed

\* C9: the legal-name matcher is called, and legalNamePresent and
\* legalNameURL change, only for a proprietorship with a non-empty legal name:
\* for a non-proprietorship legalNamePresent is "NOT RELEVANT" throughout, for
\* a proprietorship without legal name it stays false; in both cases
\* legalNameURL stays null and "legal name" is never listed as missing.
C9_LegalNameGuard ==
  InAudit =>
    /\ ~isProprietorship(argEntityType) =>
         /\ result.legalNamePresent = "NOT RELEVANT"
         /\ result.legalNameURL = NULL
         /\ "legal name" \notin Range(result.missingPolicies)
    /\ (isProprietorship(argEntityType) /\ argLegalName = "") =>
         /\ result.legalNamePresent = "false"
         /\ result.legalNameURL = NULL
         /\ "legal name" \notin Range(result.missingPolicies)
    /\ matcherCalled => (isProprietorship(argEntityType) /\ argLegalName # "")

C9_Witness ==
  /\ Completed
  /\ isProprietorship(argEntityType) /\ argLegalName = ""
  /\ \E p \in RelevantKinds : result.policies[p].present
  /\ Len(visitedPages) > 0

Rejections == {EvalError, TextError}

MatcherRun == fn = "containsLegalName" /\ out # << >>

\* the cleaned name, its parts of more than 2 characters, and those of them
\* that stand as whole words in the page
CleanName == trim(stripSuffixes(normalize(arg[2]), 1))

LongParts ==
  LET Long(part) == Len(part) > 2 IN SelectSeq(splitSpaces(CleanName, 1), Long)

PartsOnPage ==
  LET OnPage(part) == wordTest(arg[1], part) IN SelectSeq(LongParts, OnPage)

ExactHit == wordTest(arg[1], CleanName)

SpanOfParts ==
  LET a == indexOf(toLowerCase(arg[1]), PartsOnPage[1])
      b == lastIndexOf(toLowerCase(arg[1]), PartsOnPage[Len(PartsOnPage)])
  IN  IF b >= a THEN b - a ELSE a - b

\* the pages on which "john" and "doe" each occur once, d characters apart
TwoPartBoundary ==
  \A d \in Distances :
     (arg[2] = "John Doe" /\ arg[1] \in { Apart("john", d, "doe"), Apart("doe", d, "john") })
       => out = << d < 200 >>

TypeRun == fn = "determineMerchantType" /\ out # << >>

\* C13: determineMerchantType returns goods when the input is absent or empty
\* or its normalized form contains "good", and services in every other case:
\* "Goods and Services" and "goods_services" give goods, "services" gives
\* services and "" gives goods.
C13_MerchantType ==
  TypeRun =>
    /\ out \in { <<"goods">>, <<"services">> }
    /\ out = <<"goods">> <=>
         ( arg[1] \in {NULL, ""} \/ includes(normalize(arg[1]), "good") )
    /\ arg[1] \in { NULL, "", "goods", "Goods and Services", "goods_services", "GOODS",
                    " Physical   Goods ", "good" } => out = <<"goods">>
    /\ arg[1] \in { "   ", "services", "Services", "digital", "g o o d", "goo ds" }
         => out = <<"services">>

C13_Witness ==
  TypeRun /\ arg[1] = "Goods and Services" /\ out = <<"goods">>

\* C14: once a policy has present = true, no later step of the same audit
\* changes its present flag, url or status, and no link is navigated on
\* behalf of a policy that is present.
C14_FoundIsFinal ==
  [][ (InAudit /\ pc # "load" /\ pc' \notin {"loop", "finished"}) =>
        /\ \A p \in Range(PolicyKeys) :
             result.policies[p].present =>
               /\ result'.policies[p].present
               /\ result'.policies[p].url = result.policies[p].url
               /\ result'.policies[p].status = result.policies[p].status
        /\ (pc = "pass1" /\ pi <= Len(ORDER)) => ~result.policies[ORDER[pi]].present ]_vars

C14_Witness ==
  /\ Completed
  /\ result.policies["shipping"].present
  /\ result.policies["shipping"].url = "https://b.example/ship"
  /\ result.policies["returns"].present
  /\ result.legalNamePresent = "true"

\* the pages the primary pass read on behalf of policy p, in the order read
TestedFor(p) ==
  LET For(page) == page.policyType = p IN SelectSeq(visitedPages, For)

PassedTest(page) == containsAny(page.pageText, POLICY_CONFIG[page.policyType].pageKeywords)

\* the links of the homepage that the primary pass follows for policy p
Candidates(p) ==
  { k \in 1..Len(links) :
      /\ links[k].href # "" /\ links[k].text # ""
      /\ containsAny(links[k].text, POLICY_CONFIG[p].anchorHints) }

AfterPass1 == InAudit /\ pc \notin {"load", "pass1"} /\ result.error = NULL

\* C15 (as claimed): in the primary pass at most one page is keyword-tested
\* for each policy.
C15_Claim ==
  InAudit => \A p \in Range(PolicyKeys) : Len(TestedFor(p)) <= 1

\* C15 (amended): in the primary pass the anchor-matched links of a policy
\* are tried in homepage order until the page of one passes the keyword test:
\* a page that fails the test does not end the scan, only a page that passes
\* does, so every page read for a policy but the last failed the test, and a
\* policy is left not present only after every one of its anchor-matched
\* links was tried.
C15_ScanUntilFound ==
  /\ InAudit =>
       \A p \in Range(PolicyKeys) :
          \A k \in 1..(Len(TestedFor(p)) - 1) : ~PassedTest(TestedFor(p)[k])
  /\ AfterPass1 =>
       \A p \in RelevantKinds :
          (~result.policies[p].present /\ "link" \notin gotoFailed) =>
             \A k \in Candidates(p) :
                \E m \in 1..Len(visitedPages) :
                   visitedPages[m].url = links[k].href /\ visitedPages[m].policyType = p

C15_Witness ==
  /\ AfterPass1
  /\ Len(TestedFor("shipping")) = 2
  /\ ~PassedTest(TestedFor("shipping")[1])
  /\ PassedTest(TestedFor("shipping")[2])
  /\ result.policies["shipping"].url = TestedFor("shipping")[2].url

\* C16: the primary pass takes the policies in checklist order; the URL it
\* records for a policy is the href of the earliest homepage link with text
\* and href whose text has a hint of the policy, whose navigation succeeded
\* and whose page has a keyword of the policy; after it the browser is sent
\* back to the homepage and the pass goes on with a later policy.
C16_FirstPassingLink ==
  [][ (pc = "pass1" /\ pc' \in {"pass1", "group"}) =>
        /\ pi' >= pi
        /\ \A p \in Range(PolicyKeys) :
             (~result.policies[p].present /\ result'.policies[p].present) =>
               /\ pi <= Len(ORDER) /\ p = ORDER[pi]
               /\ li \in Candidates(p)
               /\ result'.policies[p].url = links[li].href
               /\ result'.policies[p].status = "FOUND"
               /\ containsAny(result'.policies[p].pageText, POLICY_CONFIG[p].pageKeywords)
               /\ visitedPages' = Append(visitedPages,
                     [ url |-> links[li].href, pageText |-> result'.policies[p].pageText,
                       policyType |-> p ])
               /\ \A k \in Candidates(p) :
                    k < li =>
                      \/ "link" \in gotoFailed
                      \/ \E m \in 1..Len(visitedPages) :
                           /\ visitedPages[m].url = links[k].href
                           /\ visitedPages[m].policyType = p
                           /\ ~PassedTest(visitedPages[m])
               /\ cur' = result.website \/ "link" \in gotoFailed'
               /\ pi' > pi ]_vars

C16_Witness ==
  /\ pc = "pass1"
  /\ result.policies["shipping"].present
  /\ result.policies["shipping"].url = "https://b.example/rates"
  /\ Len(TestedFor("shipping")) = 2
  /\ cur = result.website

\* group resolution is over and the cached texts are still in the result
AfterGroup ==
  pc \in {"verify", "search", "search_home", "search_links", "final"} /\ result.error = NULL

\* C17: group resolution runs at most |GROUP| iterations of its outer loop
\* and ends at a fixed point: no relevant policy of the group is left not
\* present while one of its keywords occurs in the cached text of a policy of
\* the group that is present.
C17_GroupFixedPoint ==
  /\ InAudit => gi <= Len(GROUP)
  /\ AfterGroup =>
       \A p \in Range(GROUP) : \A q \in Range(GROUP) :
          ( /\ isPolicyRelevant(p, merchantType) /\ ~result.policies[p].present
            /\ result.policies[q].present /\ result.policies[q].pageText \notin {NULL, ""} )
          => ~containsAny(result.policies[q].pageText, POLICY_CONFIG[p].pageKeywords)

C17_Witness ==
  /\ pc = "verify" /\ gi = Len(GROUP)
  /\ result.policies["returns"].present
  /\ result.policies["returns"].url = "https://b.example/ship"
  /\ ~result.policies["cancellation"].present

\* the first two passes left the legal name found at a recorded URL
NameHeld == result.legalNamePresent = "true" /\ result.legalNameURL # NULL

\* the recorded URL can serve a text that holds (does not hold) the name
FreshTextMatches(url) ==
  \E body \in Bodies(url) : containsLegalName(normalize(body), result.legalName)

FreshTextDiffers(url) ==
  \E body \in Bodies(url) : ~containsLegalName(normalize(body), result.legalName)

\* C18 (as claimed): whenever the first two passes left legalNamePresent
\* true, after the verification step it is still true only if the freshly
\* fetched text of the recorded URL matched; otherwise legalNamePresent is
\* false and legalNameURL null.
C18_Claim ==
  [][ (pc = "verify" /\ NameHeld /\ pc' = "search") =>
        IF verification' = "matched"
          THEN result' = result
          ELSE result'.legalNamePresent = "false" /\ result'.legalNameURL = NULL ]_vars

\* C18 (amended): whenever the first two passes left legalNamePresent true,
\* the recorded URL is navigated again; when that navigation succeeds the
\* matcher is re-run on the fresh text, and the fields are kept if it matches
\* and reset to false and null if it does not; when the navigation fails the
\* matcher is not re-run and legalNamePresent stays true, with its URL,
\* unverified.
C18_Verification ==
  [][ pc = "verify" =>
        /\ NameHeld <=> verification' # "skipped"
        /\ verification' = "skipped" => (result' = result /\ cur' = cur)
        /\ verification' = "matched" =>
             /\ result' = result /\ cur' = result.legalNameURL
             /\ FreshTextMatches(result.legalNameURL)
        /\ verification' = "reset" =>
             /\ result' = [result EXCEPT !.legalNamePresent = "false", !.legalNameURL = NULL]
             /\ cur' = result.legalNameURL
             /\ FreshTextDiffers(result.legalNameURL)
        /\ verification' = "failed" =>
             /\ result' = result /\ "link" \in gotoFailed' /\ pc' = "search"
        /\ verification' = "rejected" => (pc' = "returned" /\ result'.error = TextError)
        /\ verification' \in {"skipped", "matched", "reset", "failed"} => pc' = "search" ]_vars

C18_Witness ==
  /\ pc = "search" /\ verification = "failed"
  /\ result.legalNamePresent = "true"
  /\ result.legalNameURL = "https://c.example/refund"

\* the condition of the comprehensive search
SearchDue ==
  result.isProprietorship /\ result.legalName # "" /\ result.legalNamePresent = "false"

\* the cached pages of the primary pass that hold the legal name
CacheHits ==
  { k \in 1..Len(visitedPages) : containsLegalName(visitedPages[k].pageText, result.legalName) }

\* the homepage links of category c, in homepage order
LinksOf(c) ==
  LET Matches(link) == includes(link.text, otherPages[c]) /\ link.href # ""
  IN  SelectSeq(links, Matches)

\* C19: the comprehensive search runs only for a proprietorship with a legal
\* name that is not found after verification; it tries the cached pages of
\* the primary pass, then the re-fetched homepage, then the categories
\* contact, about, info, us, company in this order, navigating to at most the
\* first 2 matching links of a category, and once a step matches nothing more
\* is navigated or tested.
C19_ComprehensiveSearch ==
  /\ [](pc \in {"search_home", "search_links"} => (SearchDue /\ CacheHits = {}))
  /\ []((pc = "search_links" /\ ci <= Len(otherPages)) =>
          /\ ri \in 1..2 /\ ri <= Len(LinksOf(ci))
          /\ otherPages = <<"contact", "about", "info", "us", "company">>)
  /\ [][ /\ (pc = "search" /\ ~SearchDue) => (pc' = "final" /\ result' = result /\ cur' = cur)
         /\ (pc = "search" /\ SearchDue /\ CacheHits = {}) =>
              (pc' = "search_home" /\ result' = result /\ cur' = cur)
         /\ (pc = "search" /\ SearchDue /\ CacheHits # {}) =>
              /\ pc' = "final" /\ cur' = cur
              /\ result'.legalNamePresent = "true"
              /\ \E k \in CacheHits :
                   /\ \A m \in CacheHits : k <= m
                   /\ result'.legalNameURL = visitedPages[k].url
         /\ (pc = "search_home" /\ pc' = "search_links") => result' = result
         /\ (pc = "search_links" /\ pc' = "search_links") =>
              /\ result' = result
              /\ cur' \in {result.website, LinksOf(ci)[ri].href, ErrorPage, cur}
              /\ ci' > ci \/ (ci' = ci /\ ri' > ri)
         /\ (pc \in {"search_home", "search_links"} /\ result'.error = NULL
               /\ result'.legalNamePresent = "true") => pc' = "final"
         /\ pc = "final" =>
              /\ cur' = cur /\ matcherCalled' = matcherCalled
              /\ result'.legalNamePresent = result.legalNamePresent
              /\ result'.legalNameURL = result.legalNameURL ]_vars

C19_Witness ==
  /\ pc = "search_links" /\ ci <= Len(otherPages) /\ otherPages[ci] = "us" /\ ri = 2
  /\ Len(LinksOf(ci)) = 3

\* the checklist of a merchant type, as configured
Checklist(mt) ==
  IF mt = "goods"
    THEN <<"privacy", "terms", "shipping", "returns", "refund", "cancellation">>
    ELSE <<"privacy", "terms", "refund", "cancellation">>

\* C20: after the final evaluation missingPolicies holds exactly the relevant
\* policies that are not present, once each and in checklist order, then
\* "legal name" as last element exactly when the merchant is a
\* proprietorship, a legal name was supplied and legalNamePresent is false;
\* a relevant policy has status MISSING when it is not present and FOUND
\* when it is.
C20_MissingList ==
  (Returned /\ evaluated) =>
    LET NotPresent(p) == ~result.policies[p].present
        nameDue == /\ result.isProprietorship /\ result.legalName # ""
                   /\ result.legalNamePresent = "false"
    IN  /\ result.missingPolicies =
             SelectSeq(Checklist(result.determinedMerchantType), NotPresent)
               \o (IF nameDue THEN <<"legal name">> ELSE << >>)
        /\ \A p \in RelevantKinds :
             result.policies[p].status = IF result.policies[p].present THEN "FOUND" ELSE "MISSING"

C20_Witness ==
  /\ Returned /\ evaluated
  /\ result.missingPolicies = <<"shipping", "returns", "refund", "cancellation", "legal name">>
  /\ result.policies["terms"].status = "FOUND"


\* C21 (as claimed): no policy outcome of a result that checkWebsite has
\* returned carries the cached page text, on whichever path the audit ended:
\* the homepage failed to load, a page call rejected, or the final
\* evaluation ran.
C21_Claim ==
  Returned => \A p \in Range(PolicyKeys) : result.policies[p].pageText = NULL


\* the two word lists of a policy kind, as sets
HintsOf(p) == Range(POLICY_CONFIG[p].anchorHints)

KeywordsOf(p) == Range(POLICY_CONFIG[p].pageKeywords)

\* C22 (as claimed): in the policy catalog, for every policy kind (the keys
\* from which an audit builds its outcome map) the set of anchor-text hints
\* is disjoint from the set of page-content keywords and has fewer elements
\* than it.
C22_Claim ==
  InAudit =>
    \A p \in DOMAIN result.policies :
      /\ HintsOf(p) \cap KeywordsOf(p) = {}
      /\ Cardinality(HintsOf(p)) < Cardinality(KeywordsOf(p))

\* C22 (amended): in the policy catalog no policy kind has more anchor-text
\* hints than page-content keywords; the hints are fewer for every kind but
\* shipping, whose hints are exactly its keywords.  The two sets are disjoint
\* for privacy and terms only: every hint of shipping, refund and
\* cancellation is also a content keyword of that kind, and so is the hint
\* "return" of returns (its hint "returns" is not).
C22_Catalog ==
  InAudit =>
    /\ DOMAIN result.policies = Range(PolicyKeys)
    /\ \A p \in DOMAIN result.policies :
         /\ Cardinality(HintsOf(p)) <= Cardinality(KeywordsOf(p))
         /\ Cardinality(HintsOf(p)) = Cardinality(KeywordsOf(p)) <=> p = "shipping"
         /\ HintsOf(p) \cap KeywordsOf(p) = {} <=> p \in {"privacy", "terms"}
         /\ p = "shipping" => HintsOf(p) = KeywordsOf(p)
         /\ p \in {"refund", "cancellation"} => HintsOf(p) \subseteq KeywordsOf(p)
         /\ p = "returns" => HintsOf(p) \cap KeywordsOf(p) = {"return"}

\* a shipping policy found through one word, taken as a hint on the link text
\* and as a keyword on the page text
C22_Witness ==
  /\ Returned /\ evaluated
  /\ result.policies["shipping"].present
  /\ \E w \in HintsOf("shipping") \cap KeywordsOf("shipping") :
       \E k \in 1..Len(links) :
         /\ links[k].href = result.policies["shipping"].url
         /\ includes(links[k].text, w)
         /\ \E v \in 1..Len(visitedPages) :
              /\ visitedPages[v].url = links[k].href
              /\ includes(visitedPages[v].pageText, w)


\* C23 (as claimed): whenever a step of an audit records a source URL u, as a
\* policy's url or as legalNameURL, the text that passed the keyword test or
\* the legal-name matcher was read from the page loaded by a successful
\* navigation to u: it is the text cached for u when u was fetched, or the
\* text of the document u that the browser shows when it is read.  In
\* particular the legal name is not attributed to the homepage on the
\* strength of the text of another document.
C23_Claim ==
  [][ (pc # "loop" /\ pc' \notin {"loop", "finished"}) =>
        /\ \A p \in Range(PolicyKeys) :
             ( result'.policies[p].url # result.policies[p].url /\ result'.policies[p].url # NULL ) =>
               \E v \in 1..Len(visitedPages') :
                 /\ visitedPages'[v].url = result'.policies[p].url
                 /\ containsAny(visitedPages'[v].pageText, POLICY_CONFIG[p].pageKeywords)
        /\ ( result'.legalNameURL # result.legalNameURL /\ result'.legalNameURL # NULL ) =>
             \/ cur' = result'.legalNameURL
             \/ \E v \in 1..Len(visitedPages') :
                  /\ visitedPages'[v].url = result'.legalNameURL
                  /\ containsLegalName(visitedPages'[v].pageText, legalName)
    ]_vars


\* C24: in every state of an audit, from the construction of the result to
\* the result returned and written, legalNamePresent is true exactly when
\* legalNameURL is not null: the two fields are set together and reset
\* together, and a result with legalNamePresent false or NOT RELEVANT has no
\* legal-name URL.
C24_PresentIffUrl ==
  InAudit =>
    /\ result.legalNamePresent \in {"true", "false", "NOT RELEVANT"}
    /\ result.legalNamePresent = "true" <=> result.legalNameURL # NULL
    /\ result.legalNameURL # NULL => result.legalNameURL # ""

\* the fields were set in Passes 1-2, reset by the verification step and set
\* again by the comprehensive search
C24_Witness ==
  /\ Returned /\ evaluated
  /\ verification = "reset"
  /\ result.legalNamePresent = "true"
  /\ result.legalNameURL # NULL


====
